---- MODULE Spec2Model ----
(***************************************************************************)
(* Model of the jagain library: the generic containers Option[T] and       *)
(* Result[T] (src/result.go).  The containers hold a pointer to their      *)
(* value, so the model keeps an explicit heap: every `&value` of the Go    *)
(* code allocates a fresh cell.  T is instantiated by the integers         *)
(* 0..MaxVal, errors by their messages, and caller-supplied functions by   *)
(* TLA+ functions drawn from small families.                               *)
(***************************************************************************)
EXTENDS Integers, Sequences, FiniteSets, TLC

\* ---------------------------------------------------------------- bounds
MaxVal  == 1      \* T is 0..MaxVal
MaxHeap == 3      \* cells that may be allocated in one behaviour
MaxChain == 2     \* FlatMap / FlatMapTo steps remembered of a chain
MaxPtrs == 2      \* pointers returned by ToPtr that the caller keeps

VARIABLES
  heap,     \* sequence of cells: cell a holds heap[a]; allocation appends
  opt,      \* an Option[T] variable of the caller
  res,      \* a Result[T] variable of the caller
  last,     \* history: the last call, its inputs, what it did and the heap
            \* before it
  chain,    \* history: the chain of FlatMap / FlatMapTo steps that produced
            \* res, while the caller builds one (on)
  ptrs      \* the pointers of type *T the caller got from ToPtr and kept

vars == <<heap, opt, res, last, chain, ptrs>>

\* ------------------------------------------------------------ value sets
T == 0 .. MaxVal

\* the nil pointer; addresses of cells are 1..Len(heap)
NilPtr == 0

\* the nil error, and the non-nil errors (identified by their message)
NilErr == "nil"
Errors == {"e1", "e2"}
ErrVals == Errors \cup {NilErr}

\* var ErrNoValue = errors.New("option contains no value")
ErrNoValue == "option contains no value"

\* the Go runtime's fault on `*p` with p == nil
NilDeref == "runtime error: invalid memory address or nil pointer dereference"

NoPanic == "no panic"
NoRet == "no return"

\* fmt's %v of an error: its message, or <nil> for the nil error
ErrorText(e) == IF e = NilErr THEN "<nil>" ELSE e

\* -------------------------------------------------------------- outcomes
\* What a call does: the heap after it, what it returned, the panic it
\* raised (NoPanic if none) and the caller-supplied functions it invoked.
Return(h, x, calls) == [heap |-> h, ret |-> x, panic |-> NoPanic, calls |-> calls]
Panic(h, payload, calls) == [heap |-> h, ret |-> NoRet, panic |-> payload, calls |-> calls]

\* `&value`: a fresh cell holding value
Alloc(h, value) == [heap |-> Append(h, value), ptr |-> Len(h) + 1]

\* `*p`: the runtime faults when p is nil, and reads the cell otherwise
NilFault(h) == Panic(h, NilDeref, <<>>)
Load(h, p) == h[p]

\* Caller-supplied func(T) T: the identity, the successor (wrapping round)
\* and a constant function.
MapFns == { [v \in T |-> v], [v \in T |-> (v + 1) % (MaxVal + 1)], [v \in T |-> 0] }

\* one invocation of a caller-supplied function, as logged: the parameter
\* of the callee it was, what it was given and what it returned
Call(name, arg, ret) == [fn |-> name, arg |-> arg, ret |-> ret]
NoArg == "no argument"

\* ---------------------------------------------------------------- Option
ZeroOption == [value |-> NilPtr, valid |-> FALSE]

Some(h, value) ==
  LET a == Alloc(h, value)
  IN  Return(a.heap, [value |-> a.ptr, valid |-> TRUE], <<>>)

None(h) == Return(h, [value |-> NilPtr, valid |-> FALSE], <<>>)

FromPtr(h, p) ==
  IF p = NilPtr THEN None(h) ELSE Some(h, Load(h, p))

\* ToPtr that hands out the Option's own value pointer
ToPtrShared(h, o) ==
  IF ~o.valid THEN Return(h, NilPtr, <<>>)
  ELSE Return(h, o.value, <<>>)

ToPtr(h, o) ==
  IF ~o.valid THEN Return(h, NilPtr, <<>>)
  ELSE IF o.value = NilPtr THEN NilFault(h)
  ELSE LET v == Load(h, o.value)
           a == Alloc(h, v)
       IN  Return(a.heap, a.ptr, <<>>)

IsSome(o) == o.valid

IsNone(o) == ~o.valid

\* Unwrap that yields the zero value of T when nothing is held
OptionUnwrapZero(h, o) ==
  IF ~o.valid THEN Return(h, 0, <<>>)
  ELSE IF o.value = NilPtr THEN NilFault(h)
  ELSE LET v == Load(h, o.value)
       IN  Return(h, v, <<>>)

OptionUnwrap(h, o) ==
  IF ~o.valid THEN Panic(h, ErrNoValue, <<>>)
  ELSE IF o.value = NilPtr THEN NilFault(h)
  ELSE LET v == Load(h, o.value)
       IN  Return(h, v, <<>>)

OptionUnwrapOr(h, o, defaultValue) ==
  IF ~o.valid THEN Return(h, defaultValue, <<>>)
  ELSE IF o.value = NilPtr THEN NilFault(h)
  ELSE LET v == Load(h, o.value)
       IN  Return(h, v, <<>>)

\* UnwrapOrElse that computes the fallback before it looks at the Option
OptionUnwrapOrElseEager(h, o, f) ==
  IF ~o.valid THEN Return(h, f, <<Call("f", NoArg, f)>>)
  ELSE IF o.value = NilPtr THEN NilFault(h)
  ELSE LET v == Load(h, o.value)
       IN  Return(h, v, <<Call("f", NoArg, f)>>)

\* f is the value the producer returns
OptionUnwrapOrElse(h, o, f) ==
  IF ~o.valid THEN Return(h, f, <<Call("f", NoArg, f)>>)
  ELSE IF o.value = NilPtr THEN NilFault(h)
  ELSE LET v == Load(h, o.value)
       IN  Return(h, v, <<>>)

\* Map that rewraps the held value and drops what f returned
OptionMapKeepsValue(h, o, f) ==
  IF ~o.valid THEN Return(h, o, <<>>)
  ELSE IF o.value = NilPtr THEN NilFault(h)
  ELSE LET v == Load(h, o.value)
           s == Some(h, v)
       IN  Return(s.heap, s.ret, <<Call("f", v, f[v])>>)

OptionMap(h, o, f) ==
  IF ~o.valid THEN Return(h, o, <<>>)
  ELSE IF o.value = NilPtr THEN NilFault(h)
  ELSE LET v == Load(h, o.value)
           s == Some(h, f[v])
       IN  Return(s.heap, s.ret, <<Call("f", v, f[v])>>)

\* A caller's func(T) Option[T]: g[v] is NoValue where it returns None(),
\* and w where it returns Some(w).
NoValue == -1
OptionFns == { [v \in T |-> NoValue], [v \in T |-> v],
               [v \in T |-> IF v = 0 THEN NoValue ELSE v - 1],
               [v \in T |-> IF v = 0 THEN 1 ELSE NoValue] }
CallOptionFn(h, g, v) == IF g[v] = NoValue THEN None(h) ELSE Some(h, g[v])

\* FlatMap that keeps the receiver where f returned None()
OptionFlatMapNeverAbsent(h, o, g) ==
  IF ~o.valid THEN Return(h, o, <<>>)
  ELSE IF o.value = NilPtr THEN NilFault(h)
  ELSE LET v == Load(h, o.value)
           s == CallOptionFn(h, g, v)
       IN  Return(s.heap, IF s.ret.valid THEN s.ret ELSE o, <<Call("f", v, s.ret)>>)

OptionFlatMap(h, o, g) ==
  IF ~o.valid THEN Return(h, o, <<>>)
  ELSE IF o.value = NilPtr THEN NilFault(h)
  ELSE LET v == Load(h, o.value)
           s == CallOptionFn(h, g, v)
       IN  Return(s.heap, s.ret, <<Call("f", v, s.ret)>>)

OptionMatch(h, o, some, none) ==
  IF o.valid
  THEN IF o.value = NilPtr THEN NilFault(h)
  ELSE LET v == Load(h, o.value)
       IN  Return(h, some[v], <<Call("some", v, some[v])>>)
  ELSE Return(h, none, <<Call("none", NoArg, none)>>)

\* ------------------------------------------------------------- JSON of T
\* the decimal text of a number of T = int, as fmt's %v and encoding/json
\* write it
Digits == <<"0", "1", "2", "3", "4", "5", "6", "7", "8", "9">>
FormatValue(v) == Digits[v + 1]
JsonMarshal(v) == Digits[v + 1]

OptionString(h, o) ==
  IF ~o.valid THEN Return(h, "None", <<>>)
  ELSE IF o.value = NilPtr THEN NilFault(h)
  ELSE LET v == Load(h, o.value)
       IN  Return(h, "Some(" \o FormatValue(v) \o ")", <<>>)

SyntaxError == "invalid character 'x' looking for beginning of value"
TypeError == "json: cannot unmarshal string into Go value of type int"

\* texts handed to UnmarshalJSON: numbers, null (bare and padded), a text
\* that is not JSON and a JSON string
JsonTexts == {JsonMarshal(v) : v \in T} \cup {"null", " null", " 1", "x", "\"a\""}

\* json.Unmarshal(data, &value) with `var value T` (zero): the error and value
JsonUnmarshal(data) ==
  IF \E v \in T : data \in {JsonMarshal(v), " " \o JsonMarshal(v)}
  THEN [err |-> NilErr,
        value |-> CHOOSE v \in T : data \in {JsonMarshal(v), " " \o JsonMarshal(v)}]
  ELSE IF data \in {"null", " null"} THEN [err |-> NilErr, value |-> 0]
  ELSE IF data = "\"a\"" THEN [err |-> TypeError, value |-> 0]
  ELSE [err |-> SyntaxError, value |-> 0]

OptionMarshalJSON(h, o) ==
  IF ~o.valid THEN Return(h, [data |-> "null", err |-> NilErr], <<>>)
  ELSE IF o.value = NilPtr THEN NilFault(h)
  ELSE LET v == Load(h, o.value)
       IN  Return(h, [data |-> JsonMarshal(v), err |-> NilErr], <<>>)

\* UnmarshalJSON whose null case clears the flag and keeps the old pointer
OptionUnmarshalJSONKeepsValue(h, o, data) ==
  IF data = "null"
  THEN [target |-> [o EXCEPT !.valid = FALSE]] @@ Return(h, NilErr, <<>>)
  ELSE LET d == JsonUnmarshal(data)
       IN  IF d.err # NilErr
           THEN [target |-> o] @@ Return(h, d.err, <<>>)
           ELSE LET s == Some(h, d.value)
                IN  [target |-> s.ret] @@ Return(s.heap, NilErr, <<>>)

\* UnmarshalJSON that clears the receiver before it decodes
OptionUnmarshalJSONClearsFirst(h, o, data) ==
  IF data = "null"
  THEN [target |-> None(h).ret] @@ Return(h, NilErr, <<>>)
  ELSE LET d == JsonUnmarshal(data)
       IN  IF d.err # NilErr
           THEN [target |-> None(h).ret] @@ Return(h, d.err, <<>>)
           ELSE LET s == Some(h, d.value)
                IN  [target |-> s.ret] @@ Return(s.heap, NilErr, <<>>)

\* UnmarshalJSON that decodes into the cell a present receiver already has
OptionUnmarshalJSONInPlace(h, o, data) ==
  IF data = "null"
  THEN [target |-> None(h).ret] @@ Return(h, NilErr, <<>>)
  ELSE LET d == JsonUnmarshal(data)
       IN  IF d.err # NilErr
           THEN [target |-> o] @@ Return(h, d.err, <<>>)
           ELSE IF o.valid /\ o.value # NilPtr
           THEN [target |-> o] @@ Return([h EXCEPT ![o.value] = d.value], NilErr, <<>>)
           ELSE LET s == Some(h, d.value)
                IN  [target |-> s.ret] @@ Return(s.heap, NilErr, <<>>)

\* ret is the error returned; target is *o after the call
OptionUnmarshalJSON(h, o, data) ==
  IF data = "null"
  THEN [target |-> None(h).ret] @@ Return(h, NilErr, <<>>)
  ELSE LET d == JsonUnmarshal(data)
       IN  IF d.err # NilErr
           THEN [target |-> o] @@ Return(h, d.err, <<>>)
           ELSE LET s == Some(h, d.value)
                IN  [target |-> s.ret] @@ Return(s.heap, NilErr, <<>>)

\* Option[Option[T]]: the library instantiated at its own Option[T].
\* encoding/json skips the white space around a value before it hands the
\* text of the value to an Unmarshaler.
JsonTrim(data) ==
  IF \E t \in JsonTexts : data = " " \o t
  THEN CHOOSE t \in JsonTexts : data = " " \o t
  ELSE data

\* the texts that are JSON values
JsonValid(data) == JsonTrim(data) \in {JsonMarshal(v) : v \in T} \cup {"null", "\"a\""}

\* json.Marshal(p) for p of type *Option[T]: Option[T] is a Marshaler, so
\* the text is what its MarshalJSON returns
JsonMarshalOption(h, p) ==
  IF p = NilPtr THEN Return(h, [data |-> "null", err |-> NilErr], <<>>)
  ELSE OptionMarshalJSON(h, Load(h, p))

\* `var value Option[T]; err := json.Unmarshal(data, &value)`: the syntax of
\* data is verified first, then value.UnmarshalJSON decodes the value
JsonUnmarshalOption(h, data) ==
  IF ~JsonValid(data)
  THEN [target |-> ZeroOption] @@ Return(h, SyntaxError, <<>>)
  ELSE OptionUnmarshalJSON(h, ZeroOption, JsonTrim(data))

\* MarshalJSON of an Option[Option[T]]
NestedMarshalJSON(h, o) ==
  IF ~o.valid THEN Return(h, [data |-> "null", err |-> NilErr], <<>>)
  ELSE JsonMarshalOption(h, o.value)

\* UnmarshalJSON of an Option[Option[T]]
NestedUnmarshalJSON(h, o, data) ==
  IF data = "null"
  THEN [target |-> None(h).ret] @@ Return(h, NilErr, <<>>)
  ELSE LET d == JsonUnmarshalOption(h, data)
       IN  IF d.ret # NilErr
           THEN [target |-> o] @@ Return(d.heap, d.ret, <<>>)
           ELSE LET s == Some(d.heap, d.target)
                IN  [target |-> s.ret] @@ Return(s.heap, NilErr, <<>>)

\* two Option[T] hold the same: both absent, or both present with equal values
SameOption(h, a, b) ==
  /\ a.valid = b.valid
  /\ a.valid => Load(h, a.value) = Load(h, b.value)

\* ---------------------------------------------------------------- Result
ZeroResult == [value |-> NilPtr, err |-> NilErr, valid |-> FALSE]

Ok(h, value) ==
  LET a == Alloc(h, value)
  IN  Return(a.heap, [value |-> a.ptr, err |-> NilErr, valid |-> TRUE], <<>>)

Err(h, err) == Return(h, [value |-> NilPtr, err |-> err, valid |-> FALSE], <<>>)

IsOk(r) == r.valid

IsErr(r) == ~r.valid

ResultUnwrap(h, r) ==
  IF ~r.valid
  THEN Panic(h, "called unwrap on an error result: " \o ErrorText(r.err), <<>>)
  ELSE IF r.value = NilPtr THEN NilFault(h)
  ELSE LET v == Load(h, r.value)
       IN  Return(h, v, <<>>)

ResultUnwrapOr(h, r, defaultValue) ==
  IF ~r.valid THEN Return(h, defaultValue, <<>>)
  ELSE IF r.value = NilPtr THEN NilFault(h)
  ELSE LET v == Load(h, r.value)
       IN  Return(h, v, <<>>)

ResultUnwrapOrElse(h, r, f) ==
  IF ~r.valid THEN Return(h, f[r.err], <<Call("f", r.err, f[r.err])>>)
  ELSE IF r.value = NilPtr THEN NilFault(h)
  ELSE LET v == Load(h, r.value)
       IN  Return(h, v, <<>>)

\* UnwrapErr without the test of the variant
ResultUnwrapErrUnchecked(h, r) == Return(h, r.err, <<>>)

ResultUnwrapErr(h, r) ==
  IF r.valid THEN Panic(h, "called unwrap_err on an ok result", <<>>)
  ELSE Return(h, r.err, <<>>)

\* Map that runs fn on the zero value of T when r is a failure
ResultMapEager(h, r, f) ==
  IF ~r.valid THEN Return(h, r, <<Call("f", 0, f[0])>>)
  ELSE IF r.value = NilPtr THEN NilFault(h)
  ELSE LET v == Load(h, r.value)
           s == Ok(h, f[v])
       IN  Return(s.heap, s.ret, <<Call("f", v, f[v])>>)

ResultMap(h, r, f) ==
  IF ~r.valid THEN Return(h, r, <<>>)
  ELSE IF r.value = NilPtr THEN NilFault(h)
  ELSE LET v == Load(h, r.value)
           s == Ok(h, f[v])
       IN  Return(s.heap, s.ret, <<Call("f", v, f[v])>>)

MapTo(h, r, f) ==
  IF ~r.valid THEN Err(h, r.err)
  ELSE IF r.value = NilPtr THEN NilFault(h)
  ELSE LET v == Load(h, r.value)
           s == Ok(h, f[v])
       IN  Return(s.heap, s.ret, <<Call("f", v, f[v])>>)

\* MapErr without the test of the variant: it sets err in place
ResultMapErrUnchecked(h, r, f) ==
  Return(h, [r EXCEPT !.err = f[r.err]], <<Call("f", r.err, f[r.err])>>)

ResultMapErr(h, r, f) ==
  IF r.valid THEN Return(h, r, <<>>)
  ELSE LET s == Err(h, f[r.err]) IN Return(s.heap, s.ret, <<Call("f", r.err, f[r.err])>>)

\* A caller's func(T) Result[U]: g[v] tells whether it returns Ok(g[v].value)
\* or Err(g[v].err).
OkOf(w) == [ok |-> TRUE, value |-> w, err |-> NilErr]
ErrOf(e) == [ok |-> FALSE, value |-> 0, err |-> e]
ResultFns == { [v \in T |-> OkOf(v)], [v \in T |-> ErrOf("e2")],
               [v \in T |-> IF v = 0 THEN ErrOf("e1") ELSE OkOf(v - 1)],
               [v \in T |-> IF v = 0 THEN OkOf(1) ELSE ErrOf("e1")] }
CallResultFn(h, g, v) == IF g[v].ok THEN Ok(h, g[v].value) ELSE Err(h, g[v].err)

ResultFlatMap(h, r, g) ==
  IF ~r.valid THEN Return(h, r, <<>>)
  ELSE IF r.value = NilPtr THEN NilFault(h)
  ELSE LET v == Load(h, r.value)
           s == CallResultFn(h, g, v)
       IN  Return(s.heap, s.ret, <<Call("f", v, s.ret)>>)

\* FlatMapTo that makes its failure of the new type without the error
FlatMapToDropsError(h, r, g) ==
  IF ~r.valid THEN Err(h, NilErr)
  ELSE IF r.value = NilPtr THEN NilFault(h)
  ELSE LET v == Load(h, r.value)
           s == CallResultFn(h, g, v)
       IN  Return(s.heap, s.ret, <<Call("f", v, s.ret)>>)

FlatMapTo(h, r, g) ==
  IF ~r.valid THEN Err(h, r.err)
  ELSE IF r.value = NilPtr THEN NilFault(h)
  ELSE LET v == Load(h, r.value)
           s == CallResultFn(h, g, v)
       IN  Return(s.heap, s.ret, <<Call("f", v, s.ret)>>)

ResultMatch(h, r, ok, err) ==
  IF r.valid
  THEN IF r.value = NilPtr THEN NilFault(h)
  ELSE LET v == Load(h, r.value)
       IN  Return(h, ok[v], <<Call("ok", v, ok[v])>>)
  ELSE Return(h, err[r.err], <<Call("err", r.err, err[r.err])>>)

\* MatchTo that evaluates both branches and picks one result
MatchToBothBranches(h, r, ok, err) ==
  IF r.valid
  THEN IF r.value = NilPtr THEN NilFault(h)
  ELSE LET v == Load(h, r.value)
       IN  Return(h, ok[v], <<Call("ok", v, ok[v]), Call("err", r.err, err[r.err])>>)
  ELSE Return(h, err[r.err], <<Call("err", r.err, err[r.err])>>)

MatchTo(h, r, ok, err) ==
  IF r.valid
  THEN IF r.value = NilPtr THEN NilFault(h)
  ELSE LET v == Load(h, r.value)
       IN  Return(h, ok[v], <<Call("ok", v, ok[v])>>)
  ELSE Return(h, err[r.err], <<Call("err", r.err, err[r.err])>>)

ToOption(h, r) ==
  IF ~r.valid THEN None(h)
  ELSE IF r.value = NilPtr THEN NilFault(h)
  ELSE LET v == Load(h, r.value)
       IN  Some(h, v)

\* ToResult that reports ErrNoValue instead of the error it was given
ToResultErrNoValue(h, o, err) ==
  IF ~o.valid THEN Err(h, ErrNoValue)
  ELSE IF o.value = NilPtr THEN NilFault(h)
  ELSE LET v == Load(h, o.value)
       IN  Ok(h, v)

ToResult(h, o, err) ==
  IF ~o.valid THEN Err(h, err)
  ELSE IF o.value = NilPtr THEN NilFault(h)
  ELSE LET v == Load(h, o.value)
       IN  Ok(h, v)

ResultString(h, r) ==
  IF ~r.valid THEN Return(h, "Err(" \o ErrorText(r.err) \o ")", <<>>)
  ELSE IF r.value = NilPtr THEN NilFault(h)
  ELSE LET v == Load(h, r.value)
       IN  Return(h, "Ok(" \o FormatValue(v) \o ")", <<>>)

\* Caller-supplied func(error) T and func(error) error
ErrFns == { [e \in ErrVals |-> 0], [e \in ErrVals |-> IF e = "e1" THEN 1 ELSE 0],
            [e \in ErrVals |-> IF e = NilErr THEN 1 ELSE 0] }
MatchErrFns == { [e \in ErrVals |-> 0], [e \in ErrVals |-> IF e = "e1" THEN 1 ELSE 0] }
MapErrFns == { [e \in ErrVals |-> e], [e \in ErrVals |-> IF e = "e1" THEN "e2" ELSE "e1"],
               [e \in ErrVals |-> NilErr] }

\* ----------------------------------------------------------------- state
NoChain == [on |-> FALSE, steps |-> <<>>]

\* var opt Option[T]; var res Result[T]
Init ==
  /\ heap = <<>>
  /\ opt = ZeroOption
  /\ res = ZeroResult
  /\ last = [op |-> "init"]
  /\ chain = NoChain
  /\ ptrs = <<>>

\* what `last` keeps of an outcome
Seen(out) == [ret |-> out.ret, panic |-> out.panic, calls |-> out.calls]

Fits(out) == Len(out.heap) <= MaxHeap

\* How the caller's previous statement made the container it is about to
\* unwrap: the call that assigned it ("other" if the statement assigned
\* nothing), the value or error a constructor was given, and whether the
\* statement is one that yields an absent Option whatever came before it:
\* None(), a bare declaration, FromPtr(nil), UnmarshalJSON of null,
\* ToOption of a failure.
Producer(l) ==
  [op     |-> IF /\ l.op \in {"Some", "None", "Option.zero", "FromPtr", "Option.Map",
                              "Option.FlatMap", "Result.ToOption", "Option.UnmarshalJSON",
                              "Ok", "Err", "Result.zero"}
                 /\ l.out.panic = NoPanic
                 /\ (l.op = "Option.UnmarshalJSON" => l.out.ret = NilErr)
              THEN l.op ELSE "other",
   value  |-> IF l.op \in {"Some", "Ok"} THEN l.in.value ELSE NoValue,
   err    |-> IF l.op = "Err" THEN l.in.err ELSE NilErr,
   absent |-> \/ l.op \in {"None", "Option.zero"}
              \/ l.op = "FromPtr" /\ l.in.ptr = NilPtr
              \/ l.op = "Option.UnmarshalJSON" /\ l.in.data = "null"
              \/ l.op = "Result.ToOption" /\ ~l.in.r.valid]

\* What a copy of a container reports through the accessors: its variant
\* and what Unwrap / UnwrapErr do on it
OptionReport(h, o) == [some |-> IsSome(o), held |-> Seen(OptionUnwrap(h, o))]
ResultReport(h, r) ==
  [ok |-> IsOk(r), held |-> Seen(ResultUnwrap(h, r)), err |-> Seen(ResultUnwrapErr(h, r))]

\* The copies that may exist of the containers built so far: a container is
\* a struct of a flag and pointers, and a copy of it holds the same pointers
OptionCopies(h) == {ZeroOption} \cup {[value |-> p, valid |-> TRUE] : p \in 1 .. Len(h)}
ResultCopies(h) ==
  {[value |-> NilPtr, err |-> e, valid |-> FALSE] : e \in ErrVals}
    \cup {[value |-> p, err |-> NilErr, valid |-> TRUE] : p \in 1 .. Len(h)}

\* The Option a Result was converted from, when the caller's previous
\* statement was res = o.ToResult(err)
ConvertedFrom(l) ==
  IF l.op = "Option.ToResult" /\ l.out.panic = NoPanic
  THEN [known |-> TRUE, o |-> l.in.o, err |-> l.in.err]
  ELSE [known |-> FALSE, o |-> ZeroOption, err |-> NilErr]

\* The Option whose MarshalJSON (op) made the text the caller now decodes,
\* when the caller's previous statement was that call
MarshalledFrom(l, op, data) ==
  IF /\ l.op = op
     /\ l.out.panic = NoPanic
     /\ l.out.ret.err = NilErr
     /\ l.out.ret.data = data
  THEN [known |-> TRUE, o |-> l.in.o]
  ELSE [known |-> FALSE, o |-> ZeroOption]

\* a call whose result the caller only looks at
Observe(op, in, out) ==
  /\ Fits(out)
  /\ heap' = out.heap
  /\ last' = [op |-> op, in |-> in, out |-> Seen(out), before |-> heap]
  /\ UNCHANGED <<opt, res, chain, ptrs>>

\* opt = <call>, unless the call faulted
SetOpt(op, in, out) ==
  IF out.panic # NoPanic THEN Observe(op, in, out)
  ELSE /\ Fits(out)
       /\ heap' = out.heap
       /\ opt' = out.ret
       /\ last' = [op |-> op, in |-> in, out |-> Seen(out), before |-> heap]
       /\ UNCHANGED <<res, chain, ptrs>>

\* the last MaxChain steps of a chain
Window(c) == IF Len(c) > MaxChain THEN Tail(c) ELSE c

\* res = <call>, unless the call faulted; a FlatMap / FlatMapTo on res
\* extends the chain that produced res, any other assignment starts afresh
SetRes(op, in, out) ==
  IF out.panic # NoPanic THEN Observe(op, in, out)
  ELSE /\ Fits(out)
       /\ heap' = out.heap
       /\ res' = out.ret
       /\ last' = [op |-> op, in |-> in, out |-> Seen(out), before |-> heap]
       /\ chain' = IF chain.on /\ op \in {"Result.FlatMap", "FlatMapTo"}
                   THEN [on |-> TRUE,
                         steps |-> Window(Append(chain.steps,
                                     [op |-> op, in |-> res, out |-> out.ret,
                                      calls |-> out.calls]))]
                   ELSE NoChain
       /\ UNCHANGED <<opt, ptrs>>

\* ------------------------------------------------------- calls on Option
CallSome == \E v \in T : SetOpt("Some", [value |-> v], Some(heap, v))

CallNone == SetOpt("None", [none |-> TRUE], None(heap))

\* var o Option[T]
DeclareOption == SetOpt("Option.zero", [none |-> TRUE], Return(heap, ZeroOption, <<>>))

\* FromPtr(nil)     and      val := v; FromPtr(&val)
CallFromPtr ==
  \/ SetOpt("FromPtr", [ptr |-> NilPtr], FromPtr(heap, NilPtr))
  \/ \E v \in T :
       LET a == Alloc(heap, v)
       IN  SetOpt("FromPtr", [ptr |-> a.ptr], FromPtr(a.heap, a.ptr))

CallToPtr == Observe("ToPtr", [o |-> opt], ToPtr(heap, opt))

\* p := opt.ToPtr(), and the caller keeps p
KeepToPtr ==
  LET out == ToPtr(heap, opt)
  IN  /\ Len(ptrs) < MaxPtrs
      /\ out.panic = NoPanic
      /\ Fits(out)
      /\ heap' = out.heap
      /\ ptrs' = Append(ptrs, out.ret)
      /\ last' = [op |-> "ToPtr", in |-> [o |-> opt], out |-> Seen(out), before |-> heap]
      /\ UNCHANGED <<opt, res, chain>>

\* *p = v for a pointer p the caller kept: a fault when p is nil
StoreThroughPtr ==
  \E i \in 1 .. Len(ptrs), v \in T :
     LET p == ptrs[i]
         in == [ptr |-> p, value |-> v, o |-> opt, held |-> Seen(OptionUnwrap(heap, opt))]
     IN  IF p = NilPtr THEN Observe("Store", in, NilFault(heap))
         ELSE /\ heap' = [heap EXCEPT ![p] = v]
              /\ last' = [op |-> "Store", in |-> in, out |-> Seen(Return(heap', v, <<>>)),
                          before |-> heap]
              /\ UNCHANGED <<opt, res, chain, ptrs>>

\* opt = FromPtr(p) for a pointer p the caller kept
CallFromPtrKept ==
  \E i \in 1 .. Len(ptrs) : SetOpt("FromPtr", [ptr |-> ptrs[i]], FromPtr(heap, ptrs[i]))

CallIsSome ==
  Observe("IsSome", [o |-> opt], Return(heap, [some |-> IsSome(opt), none |-> IsNone(opt)], <<>>))

CallOptionUnwrap ==
  Observe("Option.Unwrap", [o |-> opt, from |-> Producer(last)], OptionUnwrap(heap, opt))

CallOptionUnwrapOr ==
  \E d \in T : Observe("Option.UnwrapOr", [o |-> opt, defaultValue |-> d],
                       OptionUnwrapOr(heap, opt, d))

CallOptionUnwrapOrElse ==
  \E f \in T : Observe("Option.UnwrapOrElse", [o |-> opt, f |-> f],
                       OptionUnwrapOrElse(heap, opt, f))

CallOptionMap ==
  \E f \in MapFns : SetOpt("Option.Map", [o |-> opt, f |-> f], OptionMap(heap, opt, f))

CallOptionFlatMap ==
  \E g \in OptionFns :
     SetOpt("Option.FlatMap", [o |-> opt, f |-> g], OptionFlatMap(heap, opt, g))

CallOptionMatch ==
  \E some \in MapFns, none \in T :
     Observe("Option.Match", [o |-> opt, some |-> some, none |-> none],
             OptionMatch(heap, opt, some, none))

CallOptionMarshalJSON == Observe("Option.MarshalJSON", [o |-> opt], OptionMarshalJSON(heap, opt))

CallOptionString == Observe("Option.String", [o |-> opt], OptionString(heap, opt))

\* err := opt.UnmarshalJSON(data)
CallOptionUnmarshalJSON ==
  \E data \in JsonTexts :
     LET out == OptionUnmarshalJSON(heap, opt, data)
     IN  /\ Fits(out)
         /\ heap' = out.heap
         /\ opt' = out.target
         /\ last' = [op |-> "Option.UnmarshalJSON",
                     in |-> [o |-> opt, data |-> data,
                             of |-> MarshalledFrom(last, "Option.MarshalJSON", data)],
                     out |-> Seen(out), before |-> heap]
         /\ UNCHANGED <<res, chain, ptrs>>

\* data, err := Some(opt).MarshalJSON()   or   None[Option[T]]().MarshalJSON()
CallNestedMarshalJSON ==
  \/ LET o == Some(heap, opt)
     IN  Observe("Nested.MarshalJSON", [o |-> o.ret], NestedMarshalJSON(o.heap, o.ret))
  \/ LET o == None(heap)
     IN  Observe("Nested.MarshalJSON", [o |-> o.ret], NestedMarshalJSON(o.heap, o.ret))

\* var back Option[Option[T]]; err := back.UnmarshalJSON(data)
CallNestedUnmarshalJSON ==
  \E data \in JsonTexts :
     LET out == NestedUnmarshalJSON(heap, ZeroOption, data)
     IN  Observe("Nested.UnmarshalJSON",
                 [o |-> ZeroOption, data |-> data,
                  of |-> MarshalledFrom(last, "Nested.MarshalJSON", data)],
                 Return(out.heap, [err |-> out.ret, back |-> out.target], <<>>))

\* opt = res.ToOption()
CallToOption ==
  SetOpt("Result.ToOption", [r |-> res, of |-> ConvertedFrom(last)], ToOption(heap, res))

\* opt = Ok(v).ToOption()     and     opt = Err[T](e).ToOption()
CallToOptionOf ==
  \/ \E v \in T :
       LET r == Ok(heap, v)
       IN  SetOpt("Result.ToOption", [r |-> r.ret], ToOption(r.heap, r.ret))
  \/ \E e \in ErrVals :
       LET r == Err(heap, e)
       IN  SetOpt("Result.ToOption", [r |-> r.ret], ToOption(r.heap, r.ret))

\* ------------------------------------------------------- calls on Result
CallOk == \E v \in T : SetRes("Ok", [value |-> v], Ok(heap, v))

CallErr == \E e \in ErrVals : SetRes("Err", [err |-> e], Err(heap, e))

\* var r Result[T]
DeclareResult == SetRes("Result.zero", [none |-> TRUE], Return(heap, ZeroResult, <<>>))

CallIsOk ==
  Observe("IsOk", [r |-> res], Return(heap, [ok |-> IsOk(res), err |-> IsErr(res)], <<>>))

CallResultUnwrap ==
  Observe("Result.Unwrap", [r |-> res, from |-> Producer(last)], ResultUnwrap(heap, res))

CallResultUnwrapErr ==
  Observe("Result.UnwrapErr", [r |-> res, from |-> Producer(last)], ResultUnwrapErr(heap, res))

CallResultUnwrapOr ==
  \E d \in T : Observe("Result.UnwrapOr", [r |-> res, defaultValue |-> d],
                       ResultUnwrapOr(heap, res, d))

CallResultUnwrapOrElse ==
  \E f \in ErrFns : Observe("Result.UnwrapOrElse", [r |-> res, f |-> f],
                            ResultUnwrapOrElse(heap, res, f))

CallResultMap ==
  \E f \in MapFns : SetRes("Result.Map", [r |-> res, f |-> f], ResultMap(heap, res, f))

CallMapTo ==
  \E f \in MapFns : SetRes("MapTo", [r |-> res, f |-> f], MapTo(heap, res, f))

CallResultMapErr ==
  \E f \in MapErrFns : SetRes("Result.MapErr", [r |-> res, f |-> f], ResultMapErr(heap, res, f))

CallResultFlatMap ==
  \E g \in ResultFns :
     SetRes("Result.FlatMap", [r |-> res, f |-> g], ResultFlatMap(heap, res, g))

CallFlatMapTo ==
  \E g \in ResultFns : SetRes("FlatMapTo", [r |-> res, f |-> g], FlatMapTo(heap, res, g))

CallResultMatch ==
  \E ok \in MapFns, err \in MatchErrFns :
     Observe("Result.Match", [r |-> res, ok |-> ok, err |-> err],
             ResultMatch(heap, res, ok, err))

CallMatchTo ==
  \E ok \in MapFns, err \in MatchErrFns :
     Observe("MatchTo", [r |-> res, ok |-> ok, err |-> err], MatchTo(heap, res, ok, err))

CallResultString == Observe("Result.String", [r |-> res], ResultString(heap, res))

\* idResult := ParseUserID(id): a chain starts from an Ok(userID) or from
\* an Err[int](err)
BeginChain ==
  \E start \in {Ok(heap, v) : v \in T} \cup {Err(heap, e) : e \in ErrVals} :
     /\ Fits(start)
     /\ heap' = start.heap
     /\ res' = start.ret
     /\ last' = [op |-> "BeginChain", in |-> [none |-> TRUE], out |-> Seen(start),
                 before |-> heap]
     /\ chain' = [on |-> TRUE, steps |-> <<>>]
     /\ UNCHANGED <<opt, ptrs>>

\* res = opt.ToResult(e)
CallToResult ==
  \E e \in ErrVals : SetRes("Option.ToResult", [o |-> opt, err |-> e], ToResult(heap, opt, e))

\* res = Some(v).ToResult(e)     and     res = None[T]().ToResult(e)
CallToResultOf ==
  \E e \in ErrVals :
     \/ \E v \in T :
          LET o == Some(heap, v)
          IN  SetRes("Option.ToResult", [o |-> o.ret, err |-> e], ToResult(o.heap, o.ret, e))
     \/ LET o == None(heap)
        IN  SetRes("Option.ToResult", [o |-> o.ret, err |-> e], ToResult(o.heap, o.ret, e))

\* -------------------------------------------------------- specifications
NextOption ==
  \/ CallSome
  \/ CallNone
  \/ DeclareOption
  \/ CallFromPtr
  \/ CallToPtr
  \/ CallIsSome
  \/ CallOptionUnwrap
  \/ CallOptionUnwrapOr
  \/ CallOptionUnwrapOrElse
  \/ CallOptionMap
  \/ CallOptionFlatMap
  \/ CallOptionMatch
  \/ CallOptionMarshalJSON
  \/ CallOptionString
  \/ CallOptionUnmarshalJSON
  \/ CallToOptionOf

NextResult ==
  \/ CallOk
  \/ CallErr
  \/ DeclareResult
  \/ CallIsOk
  \/ CallResultUnwrap
  \/ CallResultUnwrapErr
  \/ CallResultUnwrapOr
  \/ CallResultUnwrapOrElse
  \/ CallResultMap
  \/ CallMapTo
  \/ CallResultMapErr
  \/ CallResultFlatMap
  \/ CallFlatMapTo
  \/ CallResultMatch
  \/ CallMatchTo
  \/ CallResultString
  \/ CallToResultOf

\* a chain of FlatMap / FlatMapTo steps, as in GetUserEmailByStringID
NextChain ==
  \/ BeginChain
  \/ CallResultFlatMap
  \/ CallFlatMapTo
  \/ CallResultUnwrap
  \/ CallResultUnwrapErr

\* every call, on a caller that uses an Option and a Result together
Next ==
  \/ NextOption
  \/ NextResult
  \/ CallToOption
  \/ CallToResult

\* a caller that encodes and decodes Options
NextJSON ==
  \/ CallSome
  \/ CallNone
  \/ DeclareOption
  \/ CallOptionMarshalJSON
  \/ CallOptionUnmarshalJSON
  \/ CallNestedMarshalJSON
  \/ CallNestedUnmarshalJSON

\* a caller that passes between Options and pointers
NextPtr ==
  \/ CallSome
  \/ CallNone
  \/ CallFromPtr
  \/ CallFromPtrKept
  \/ CallToPtr
  \/ KeepToPtr
  \/ StoreThroughPtr
  \/ CallOptionUnwrap

\* a caller that uses only an Option
SpecOption == Init /\ [][NextOption]_vars

\* a caller that uses only a Result
SpecResult == Init /\ [][NextResult]_vars

\* a caller that chains Results
SpecChain == Init /\ [][NextChain]_vars

Spec == Init /\ [][Next]_vars

SpecJSON == Init /\ [][NextJSON]_vars

SpecPtr == Init /\ [][NextPtr]_vars

\* ------------------------------------------------------------ properties
\* C1: Option.Unwrap on an absent Option (None(), the zero value,
\* FromPtr(nil), UnmarshalJSON of null, ToOption of a failure, an absent
\* result of Map or FlatMap) panics with ErrNoValue and returns nothing, no
\* zero or default value; on Some(v) it returns v without a fault.
OptionUnwrapFaultsIffAbsent ==
  last.op = "Option.Unwrap" =>
    LET o == last.in.o
        from == last.in.from
        out == last.out
    IN  /\ IsNone(o) <=> out.panic = ErrNoValue
        /\ out.panic \in {ErrNoValue, NoPanic}
        /\ out.panic = ErrNoValue => out.ret = NoRet
        /\ out.panic = NoPanic => out.ret \in T /\ out.ret = heap[o.value]
        /\ from.absent => out.panic = ErrNoValue
        /\ from.op = "Some" => out.panic = NoPanic /\ out.ret = from.value

\* an Option that UnmarshalJSON of null made absent was unwrapped: a panic
OptionUnwrapAfterNullWitness ==
  /\ last.op = "Option.Unwrap"
  /\ last.in.from.op = "Option.UnmarshalJSON"
  /\ last.in.from.absent
  /\ last.out.panic = ErrNoValue

\* C2: Result.Unwrap panics exactly on a failure, and the panic message
\* carries the text of the wrapped error; Result.UnwrapErr panics exactly
\* on a success; on the matching variant Unwrap returns the stored value
\* and UnwrapErr the stored error.
ResultUnwrapFaultsIffMismatch ==
  /\ last.op = "Result.Unwrap" =>
        LET r == last.in.r
            from == last.in.from
            out == last.out
        IN  /\ IsErr(r) <=> out.panic # NoPanic
            /\ IsErr(r) => /\ out.panic = "called unwrap on an error result: " \o ErrorText(r.err)
                           /\ out.ret = NoRet
            /\ IsOk(r) => out.ret \in T /\ out.ret = heap[r.value]
            /\ from.op = "Ok" => out.panic = NoPanic /\ out.ret = from.value
            /\ from.op = "Err" =>
                  out.panic = "called unwrap on an error result: " \o ErrorText(from.err)
  /\ last.op = "Result.UnwrapErr" =>
        LET r == last.in.r
            from == last.in.from
            out == last.out
        IN  /\ IsOk(r) <=> out.panic # NoPanic
            /\ IsOk(r) => out.panic = "called unwrap_err on an ok result" /\ out.ret = NoRet
            /\ IsErr(r) => out.ret = r.err
            /\ from.op = "Ok" => out.panic # NoPanic
            /\ from.op = "Err" => out.panic = NoPanic /\ out.ret = from.err

\* Err(e1) was unwrapped: the panic carries e1
ResultUnwrapOfErrWitness ==
  /\ last.op = "Result.Unwrap"
  /\ last.in.from.op = "Err"
  /\ last.in.from.err = "e1"
  /\ last.out.panic = "called unwrap on an error result: e1"

\* C3: a failure always carries a non-nil error: whenever IsErr() is true,
\* UnwrapErr() returns a non-nil error.  (Refuted by the zero-value Result,
\* by Err(nil), by ToResult(nil) and by MapErr with a function returning
\* nil.)
FailureCarriesNonNilError ==
  last.op = "Result.UnwrapErr" /\ IsErr(last.in.r) => last.out.ret # NilErr

\* C4: every Option the public calls produce has valid = true exactly when
\* its value pointer is non-nil (and then points into the heap), and
\* exactly one of IsSome() / IsNone() is true.
OptionFlagMatchesPointer ==
  LET wf(o) == /\ o.valid <=> o.value # NilPtr
               /\ o.value \in 0 .. Len(heap)
               /\ IsSome(o) # IsNone(o)
  IN  /\ wf(opt)
      /\ last.op \in {"Option.Map", "Option.FlatMap", "Some", "None", "FromPtr",
                       "Result.ToOption"} /\ last.out.panic = NoPanic => wf(last.out.ret)
      /\ last.op = "IsSome" => last.out.ret.some # last.out.ret.none

\* UnmarshalJSON of null replaced a present Option: flag and pointer cleared
OptionNullOverPresentWitness ==
  /\ last.op = "Option.UnmarshalJSON"
  /\ last.in.data = "null"
  /\ last.in.o.valid
  /\ ~opt.valid
  /\ opt.value = NilPtr

\* C5: in every Result the public calls produce exactly one of IsOk() /
\* IsErr() is true, a success has a non-nil value pointer and a nil err, a
\* failure has a nil value pointer; no call ever dereferences a nil pointer.
ResultFieldsMatchVariant ==
  LET wf(r) == /\ r.valid => r.value \in 1 .. Len(heap) /\ r.err = NilErr
               /\ ~r.valid => r.value = NilPtr
               /\ IsOk(r) # IsErr(r)
  IN  /\ wf(res)
      /\ last.op # "init" => last.out.panic # NilDeref
      /\ last.op = "IsOk" => last.out.ret.ok # last.out.ret.err

\* MapErr passed a success on: value kept, err still nil
ResultMapErrOnSuccessWitness ==
  /\ last.op = "Result.MapErr"
  /\ last.in.r.valid
  /\ res.valid
  /\ res.value # NilPtr
  /\ res.err = NilErr

\* C6: in a chain of FlatMap / FlatMapTo steps, once a step's input is a
\* failure with error e no later function is invoked and every later
\* result, the final one included, is a failure with that same e (and a nil
\* value); a step whose input is a success invokes its function exactly
\* once, on that success value, and returns what the function returned;
\* each step works on the previous step's result.
ChainShortCircuits ==
  chain.on =>
    LET st == chain.steps
        n == Len(st)
    IN  /\ \A i \in 1 .. n : \A j \in i .. n :
             IsErr(st[i].in) =>
               /\ st[j].calls = <<>>
               /\ IsErr(st[j].out)
               /\ st[j].out.err = st[i].in.err
               /\ st[j].out.value = NilPtr
        /\ \A i \in 1 .. n :
             IsOk(st[i].in) =>
               /\ Len(st[i].calls) = 1
               /\ st[i].calls[1].fn = "f"
               /\ st[i].calls[1].arg = heap[st[i].in.value]
               /\ st[i].calls[1].ret = st[i].out
        /\ \A i \in 1 .. n - 1 : st[i + 1].in = st[i].out
        /\ n > 0 => res = st[n].out

\* a chain whose first step turned a success into a failure e1, and whose
\* next step, a FlatMapTo, passed e1 on without calling its function
ChainFailsMidwayWitness ==
  /\ chain.on
  /\ Len(chain.steps) = 2
  /\ IsOk(chain.steps[1].in)
  /\ IsErr(chain.steps[1].out)
  /\ chain.steps[1].out.err = "e1"
  /\ chain.steps[2].op = "FlatMapTo"
  /\ chain.steps[2].calls = <<>>
  /\ IsErr(res)
  /\ res.err = "e1"

\* C7: UnwrapOrElse is lazy on both types: on an absent Option the producer
\* is invoked exactly once and its result returned; on a failure the
\* fallback is invoked exactly once, with the stored error, and its result
\* returned; on Some(v) / Ok(v) nothing is invoked and v is returned.
UnwrapOrElseIsLazy ==
  /\ last.op = "Option.UnwrapOrElse" =>
        LET o == last.in.o
            out == last.out
        IN  /\ out.panic = NoPanic
            /\ IsNone(o) => /\ out.calls = <<Call("f", NoArg, last.in.f)>>
                            /\ out.ret = last.in.f
            /\ IsSome(o) => out.calls = <<>> /\ out.ret = heap[o.value]
  /\ last.op = "Result.UnwrapOrElse" =>
        LET r == last.in.r
            out == last.out
        IN  /\ out.panic = NoPanic
            /\ IsErr(r) => /\ out.calls = <<Call("f", r.err, last.in.f[r.err])>>
                           /\ out.ret = last.in.f[r.err]
            /\ IsOk(r) => out.calls = <<>> /\ out.ret = heap[r.value]

\* the fallback of a failure e1 was invoked with e1 and its result returned
UnwrapOrElseOnFailureWitness ==
  /\ last.op = "Result.UnwrapOrElse"
  /\ IsErr(last.in.r)
  /\ last.in.r.err = "e1"
  /\ Len(last.out.calls) = 1
  /\ last.out.calls[1].arg = "e1"
  /\ last.out.ret = 1

\* C8: Option.Map on Some(v) is a present Option whose Unwrap() is f(v),
\* with f invoked exactly once (on v); on an absent Option it is absent
\* and f is not invoked.
OptionMapFunctorLaw ==
  last.op = "Option.Map" =>
    LET o == last.in.o
        f == last.in.f
        out == last.out
    IN  /\ out.panic = NoPanic
        /\ IsSome(o) =>
              LET v == OptionUnwrap(heap, o).ret
              IN  /\ IsSome(out.ret)
                  /\ OptionUnwrap(heap, out.ret) = Return(heap, f[v], <<>>)
                  /\ out.calls = <<Call("f", v, f[v])>>
                  /\ opt = out.ret
        /\ IsNone(o) => IsNone(out.ret) /\ out.calls = <<>> /\ opt = out.ret

\* Map applied the successor function to Some(0): now Some(1)
OptionMapOfSomeWitness ==
  /\ last.op = "Option.Map"
  /\ IsSome(last.in.o)
  /\ heap[last.in.o.value] = 0
  /\ IsSome(opt)
  /\ heap[opt.value] = 1
  /\ Len(last.out.calls) = 1

\* C9: Option.FlatMap on Some(v) is exactly the Option f(v) returned,
\* absent where f returned None() and holding w where it returned Some(w);
\* on an absent Option it is absent and f is not invoked.
OptionFlatMapMonadLaw ==
  last.op = "Option.FlatMap" =>
    LET o == last.in.o
        g == last.in.f
        out == last.out
    IN  /\ out.panic = NoPanic
        /\ IsSome(o) =>
              LET v == OptionUnwrap(heap, o).ret
              IN  /\ Len(out.calls) = 1
                  /\ out.calls[1].fn = "f"
                  /\ out.calls[1].arg = v
                  /\ out.ret = out.calls[1].ret
                  /\ g[v] = NoValue => IsNone(out.ret)
                  /\ g[v] # NoValue =>
                        OptionUnwrap(heap, out.ret) = Return(heap, g[v], <<>>)
                  /\ opt = out.ret
        /\ IsNone(o) => IsNone(out.ret) /\ out.calls = <<>> /\ opt = out.ret

\* FlatMap reduced a present Option to an absent one
OptionFlatMapToNoneWitness ==
  /\ last.op = "Option.FlatMap"
  /\ IsSome(last.in.o)
  /\ Len(last.out.calls) = 1
  /\ IsNone(opt)

\* C10: Match invokes exactly one branch, once, and returns its result:
\* Option.Match the some branch with the held value when present and the
\* none branch when absent; Result.Match and MatchTo the ok branch with the
\* success value on a success and the err branch with the stored error on a
\* failure.  It never faults.
MatchInvokesOneBranch ==
  /\ last.op = "Option.Match" =>
        LET o == last.in.o
            out == last.out
        IN  /\ out.panic = NoPanic
            /\ Len(out.calls) = 1
            /\ out.ret = out.calls[1].ret
            /\ IsSome(o) =>
                  out.calls[1] = Call("some", heap[o.value], last.in.some[heap[o.value]])
            /\ IsNone(o) => out.calls[1] = Call("none", NoArg, last.in.none)
  /\ last.op \in {"Result.Match", "MatchTo"} =>
        LET r == last.in.r
            out == last.out
        IN  /\ out.panic = NoPanic
            /\ Len(out.calls) = 1
            /\ out.ret = out.calls[1].ret
            /\ IsOk(r) =>
                  out.calls[1] = Call("ok", heap[r.value], last.in.ok[heap[r.value]])
            /\ IsErr(r) => out.calls[1] = Call("err", r.err, last.in.err[r.err])

\* MatchTo on a failure e1 took the err branch, which returned 1
MatchToOnFailureWitness ==
  /\ last.op = "MatchTo"
  /\ IsErr(last.in.r)
  /\ last.in.r.err = "e1"
  /\ last.out.calls = <<Call("err", "e1", 1)>>
  /\ last.out.ret = 1

\* C11: Some(v).ToResult(e) is a success whose Unwrap() is v, with a nil
\* err whatever e is; None.ToResult(e) is a failure whose UnwrapErr() is e;
\* Ok(v).ToOption() is present with Unwrap() v; Err(e).ToOption() is absent.
\* Hence o.ToResult(e).ToOption() is present with the value of o when o is
\* present, and absent when o is absent.
ConversionsKeepValue ==
  /\ last.op = "Option.ToResult" =>
        LET o == last.in.o
            out == last.out
        IN  /\ out.panic = NoPanic
            /\ out.calls = <<>>
            /\ res = out.ret
            /\ IsSome(o) => /\ IsOk(out.ret)
                            /\ out.ret.err = NilErr
                            /\ ResultUnwrap(heap, out.ret).ret = OptionUnwrap(heap, o).ret
            /\ IsNone(o) => /\ IsErr(out.ret)
                            /\ ResultUnwrapErr(heap, out.ret).ret = last.in.err
  /\ last.op = "Result.ToOption" =>
        LET r == last.in.r
            out == last.out
        IN  /\ out.panic = NoPanic
            /\ out.calls = <<>>
            /\ opt = out.ret
            /\ IsOk(r) => /\ IsSome(out.ret)
                          /\ OptionUnwrap(heap, out.ret).ret = ResultUnwrap(heap, r).ret
            /\ IsErr(r) => IsNone(out.ret)
  /\ last.op = "Result.ToOption" /\ "of" \in DOMAIN last.in /\ last.in.of.known =>
        LET o == last.in.of.o
        IN  /\ IsSome(o) => /\ IsSome(opt)
                            /\ OptionUnwrap(heap, opt).ret = OptionUnwrap(heap, o).ret
            /\ IsNone(o) => IsNone(opt)

\* None.ToResult(e1).ToOption(): the failure e1 became an absent Option
ConversionRoundTripOfNoneWitness ==
  /\ last.op = "Result.ToOption"
  /\ "of" \in DOMAIN last.in
  /\ last.in.of.known
  /\ IsNone(last.in.of.o)
  /\ last.in.of.err = "e1"
  /\ IsErr(last.in.r)
  /\ last.in.r.err = "e1"
  /\ IsNone(opt)

\* C12: decoding the text that MarshalJSON made of an Option gives back an
\* Option of the same variant: a present one comes back present with an
\* equal value, an absent one comes back absent, and no error is returned.
\* Stated for Option[T] and for Option[Option[T]].
JsonRoundTripKeepsOption ==
  /\ last.op = "Option.UnmarshalJSON" /\ last.in.of.known =>
        LET sent == last.in.of.o
        IN  /\ last.out.ret = NilErr
            /\ SameOption(heap, opt, sent)
  /\ last.op = "Nested.UnmarshalJSON" /\ last.in.of.known =>
        LET sent == last.in.of.o
            back == last.out.ret.back
        IN  /\ last.out.ret.err = NilErr
            /\ back.valid = sent.valid
            /\ sent.valid => SameOption(heap, Load(heap, back.value), Load(heap, sent.value))

\* C13: ToPtr of an absent Option returns nil; ToPtr of Some(v) returns a
\* non-nil pointer to a cell that holds v and is not the cell of the
\* Option. No pointer the caller kept is the value pointer of the Option or
\* of another ToPtr call, and after a store through a kept pointer the
\* Option is what it was and Unwrap() returns what it returned before.
ToPtrIsACopy ==
  /\ last.op = "ToPtr" =>
        LET o == last.in.o
            out == last.out
        IN  /\ out.panic = NoPanic
            /\ IsNone(o) => out.ret = NilPtr
            /\ IsSome(o) => /\ out.ret # NilPtr
                            /\ out.ret # o.value
                            /\ Load(heap, out.ret) = Load(heap, o.value)
  /\ \A i \in 1 .. Len(ptrs) :
        ptrs[i] # NilPtr =>
          /\ ptrs[i] # opt.value
          /\ \A j \in 1 .. Len(ptrs) : j # i => ptrs[j] # ptrs[i]
  /\ last.op = "Store" /\ last.out.panic = NoPanic =>
        /\ opt = last.in.o
        /\ Seen(OptionUnwrap(heap, opt)) = last.in.held
        /\ Load(heap, last.in.ptr) = last.in.value

\* Some(1), two ToPtr calls, then a store of 0 through one of the two
\* pointers: the Option still holds 1 and the other pointer still reads 1
StoreThroughToPtrWitness ==
  /\ last.op = "Store"
  /\ last.out.panic = NoPanic
  /\ last.in.value = 0
  /\ IsSome(opt)
  /\ Load(heap, opt.value) = 1
  /\ Len(ptrs) = 2
  /\ ptrs[1] # NilPtr
  /\ ptrs[2] # NilPtr
  /\ last.in.ptr = ptrs[1]
  /\ Load(heap, ptrs[1]) = 0
  /\ Load(heap, ptrs[2]) = 1

\* C14: no call alters a container that exists. Each cell that existed
\* before the last call holds after it what it held before, so every copy
\* of an Option or Result that may have been taken before the call (the
\* receiver among them) reports the same variant and the same held value or
\* error after it; Match, UnwrapOr and UnwrapOrElse leave the caller's
\* variable as it was, and UnmarshalJSON gives the target variable a new
\* value whose cell did not exist before.
ContainersAreImmutable ==
  last.op # "init" =>
    /\ Len(last.before) <= Len(heap)
    /\ \A p \in 1 .. Len(last.before) : Load(heap, p) = Load(last.before, p)
    /\ \A o \in OptionCopies(last.before) :
          OptionReport(heap, o) = OptionReport(last.before, o)
    /\ \A r \in ResultCopies(last.before) :
          ResultReport(heap, r) = ResultReport(last.before, r)
    /\ last.op \in {"Option.Match", "Option.UnwrapOr", "Option.UnwrapOrElse"}
          => opt = last.in.o /\ opt \in OptionCopies(last.before)
    /\ last.op \in {"Result.Match", "MatchTo", "Result.UnwrapOr", "Result.UnwrapOrElse"}
          => res = last.in.r /\ res \in ResultCopies(last.before)
    /\ last.op \in {"Option.Map", "Option.FlatMap", "Option.ToResult", "Option.UnmarshalJSON"}
          => last.in.o \in OptionCopies(last.before) \cup OptionCopies(heap)
    /\ last.op \in {"Result.Map", "MapTo", "Result.MapErr", "Result.FlatMap", "FlatMapTo",
                    "Result.ToOption"}
          => last.in.r \in ResultCopies(last.before) \cup ResultCopies(heap)
    /\ last.op = "Option.UnmarshalJSON" /\ last.out.ret = NilErr /\ IsSome(opt)
          => opt.value > Len(last.before)

\* UnmarshalJSON of "0" into a variable that held Some(1): the variable
\* holds Some(0) in a new cell, and the Option it held before the call
\* (kept in last.in.o) still points at a cell holding 1
ReplacedByUnmarshalWitness ==
  /\ last.op = "Option.UnmarshalJSON"
  /\ last.out.ret = NilErr
  /\ IsSome(last.in.o)
  /\ OptionReport(heap, last.in.o).held.ret = 1
  /\ IsSome(opt)
  /\ OptionReport(heap, opt).held.ret = 0
  /\ opt.value # last.in.o.value

\* C15: Result.Map and Result.MapErr act on their own variant only.
\* Ok(v).Map(f) is Ok(f(v)) after one call f(v); Err(e).Map(f) is a failure
\* with the same e and f is not called; Err(e).MapErr(g) is a failure with
\* g(e) after one call g(e); Ok(v).MapErr(g) is a success that still holds
\* v and g is not called.
MapActsOnOwnVariant ==
  /\ last.op = "Result.Map" =>
        LET r == last.in.r
            f == last.in.f
            out == last.out
        IN  /\ out.panic = NoPanic
            /\ res = out.ret
            /\ IsOk(r) =>
                 LET v == ResultUnwrap(last.before, r).ret
                 IN  /\ IsOk(out.ret)
                     /\ ResultUnwrap(heap, out.ret) = Return(heap, f[v], <<>>)
                     /\ out.calls = <<Call("f", v, f[v])>>
            /\ IsErr(r) =>
                 /\ IsErr(out.ret)
                 /\ ResultUnwrapErr(heap, out.ret) = Return(heap, r.err, <<>>)
                 /\ out.calls = <<>>
  /\ last.op = "Result.MapErr" =>
        LET r == last.in.r
            g == last.in.f
            out == last.out
        IN  /\ out.panic = NoPanic
            /\ res = out.ret
            /\ IsErr(r) =>
                 /\ IsErr(out.ret)
                 /\ ResultUnwrapErr(heap, out.ret) = Return(heap, g[r.err], <<>>)
                 /\ out.calls = <<Call("f", r.err, g[r.err])>>
            /\ IsOk(r) =>
                 /\ IsOk(out.ret)
                 /\ ResultUnwrap(heap, out.ret) = ResultUnwrap(last.before, r)
                 /\ out.calls = <<>>

\* Err(e1).Map(f): the failure e1 went through Map and f was not called
MapOverFailureWitness ==
  /\ last.op = "Result.Map"
  /\ IsErr(last.in.r)
  /\ last.in.r.err = "e1"
  /\ last.in.f = [v \in T |-> (v + 1) % (MaxVal + 1)]
  /\ IsErr(res)
  /\ res.err = "e1"
  /\ last.out.calls = <<>>

\* C16: UnmarshalJSON leaves the receiver alone when it fails: if decoding
\* the text as T fails, the error is returned and the Option is what it was
\* before the call, in variant and in held value; when nil is returned the
\* Option is None for the text null and Some of the decoded value for any
\* other text.
UnmarshalIsAtomic ==
  last.op = "Option.UnmarshalJSON" =>
    LET o == last.in.o
        data == last.in.data
        d == JsonUnmarshal(data)
        err == last.out.ret
    IN  /\ last.out.panic = NoPanic
        /\ err # NilErr <=> (data # "null" /\ d.err # NilErr)
        /\ err # NilErr =>
              /\ err = d.err
              /\ opt = o
              /\ OptionReport(heap, opt) = OptionReport(last.before, o)
        /\ err = NilErr /\ data = "null" => IsNone(opt)
        /\ err = NilErr /\ data # "null" =>
              /\ IsSome(opt)
              /\ OptionUnwrap(heap, opt) = Return(heap, d.value, <<>>)

\* UnmarshalJSON of a JSON string into a variable that holds Some(1): a
\* type error is returned and the variable still holds Some(1)
UnmarshalFailsOnPresentWitness ==
  /\ last.op = "Option.UnmarshalJSON"
  /\ last.in.data = "\"a\""
  /\ last.out.ret = TypeError
  /\ IsSome(last.in.o)
  /\ opt = last.in.o
  /\ OptionUnwrap(heap, opt).ret = 1

====
